---- MODULE Spec2Model ----
(***************************************************************************)
(* Model of the crawl/index pipeline of kieltech68/Intell:                 *)
(*   Backend/crawler.py  recursive_crawl, crawl_and_index, extract_links,  *)
(*                       extract_pdf_text, get_domain                      *)
(*   Backend/app.py      index_page (POST /index-page)                     *)
(*                                                                         *)
(* A URL is a sequence of tokens, each token a run of characters of the    *)
(* URL string: <<"https://", "a.com", "/p", "#", "s">> is the string       *)
(* "https://a.com/p#s".  The string operations of the source (startswith,  *)
(* endswith, split('#')[0], urlparse) are computed on these sequences.     *)
(* A text (page body, PDF text) is modelled by its length in characters.   *)
(***************************************************************************)
EXTENDS Integers, Sequences, FiniteSets, TLC

(* ------------------------------ bounds -------------------------------- *)
\* longest seed list tried
MaxSeeds == 2
\* most <a href> anchors on one fetched page
MaxLinks == 1
\* most documents the index holds before es.index refuses more
MaxIndex == 3
\* crawler.py:39 sets MAX_PAGES = 300; the model runs the same loop with a
\* small page budget so that runs which exhaust the budget are explored
MAX_PAGES == 4

(* ------------------------- program constants -------------------------- *)
MaxPieces == 4

MaxLog == 1

MaxBuckets == 3

\* "now-24h" in seconds
DAY == 86400

MAX_DEPTH == 2
CONTENT_CAP == 50000

\* Python's None for an optional string (os.getenv, Header(None))
None == "<None>"

(* ------------------------------- URLs --------------------------------- *)
UA    == <<"https://", "a.com", "/">>
UAp   == <<"https://", "a.com", "/p">>
UApF  == <<"https://", "a.com", "/p", "#", "s">>
UPdf  == <<"https://", "a.com", "/d", ".pdf">>
UEvil == <<"https://", "a.com", ".evil.org", "/">>
UB    == <<"https://", "b.org", "/">>

URLS == {UA, UAp, UApF, UPdf, UEvil, UB}

\* tokens that end the netloc part of a URL
PathStart == {"/", "/p", "/d", "#"}

\* lengths of the texts the web serves
TextLens == {0, CONTENT_CAP, CONTENT_CAP + 1}

startswith(s, p) == Len(p) <= Len(s) /\ SubSeq(s, 1, Len(p)) = p

endswith(s, t) == Len(s) >= 1 /\ s[Len(s)] = t

\* s.split(sep)[0]: the part of s before the first sep (all of s without one)
RECURSIVE split0(_, _)
split0(s, sep) ==
    IF s = <<>> \/ Head(s) = sep THEN <<>>
    ELSE <<Head(s)>> \o split0(Tail(s), sep)

\* urlparse(url).netloc: what follows the scheme, up to the path or fragment
RECURSIVE UpToPath(_)
UpToPath(s) ==
    IF s = <<>> \/ Head(s) \in PathStart THEN <<>>
    ELSE <<Head(s)>> \o UpToPath(Tail(s))

netloc(url) == UpToPath(Tail(url))

\* f"{parsed.scheme}://{parsed.netloc}"
get_domain(url) == <<Head(url)>> \o netloc(url)


\* extract_links: the set of same-domain anchors, fragments removed.
\* anchors are the href values after urljoin (absolute URLs).
extract_links(url, anchors) ==
    LET domain == get_domain(url)
    IN  { split0(a, "#") : a \in { b \in anchors : startswith(b, domain) } }
            \ { <<>> }

(* ------------------------ the index (app.py) -------------------------- *)
\* dict.get(key, default)
Get(d, k, default) == IF k \in DOMAIN d THEN d[k] ELSE default

\* es.index(index=ES_INDEX, document=doc): no id is given, so the engine
\* stores a new document; it raises when the engine is down or (bound of
\* the model) holds MaxIndex documents.
es_index(idx, doc, es_up) ==
    IF es_up /\ Len(idx) < MaxIndex
    THEN [ok |-> TRUE,  index |-> Append(idx, doc)]
    ELSE [ok |-> FALSE, index |-> idx]

\* index_page without the comparison of the header with API_KEY
index_page_any_key(x_api_key, request, api_key, es_up, idx) ==
    IF api_key = None \/ api_key = ""
    THEN [status |-> 500, index |-> idx]
    ELSE IF x_api_key = None
    THEN [status |-> 401, index |-> idx]
    ELSE IF ("url" \notin DOMAIN request) \/ request.url = <<>>
    THEN [status |-> 400, index |-> idx]
    ELSE LET doc == [url       |-> request.url,
                     content   |-> Get(request, "content", 0),
                     file_type |-> Get(request, "file_type", "html")]
             res == es_index(idx, doc, es_up)
         IN  IF res.ok THEN [status |-> 201, index |-> res.index]
                       ELSE [status |-> 500, index |-> idx]

\* POST /index-page.  api_key is os.getenv("API_KEY") of the server.
index_page(x_api_key, request, api_key, es_up, idx) ==
    IF api_key = None \/ api_key = ""
    THEN [status |-> 500, index |-> idx]
    ELSE IF x_api_key = None
    THEN [status |-> 401, index |-> idx]
    ELSE IF x_api_key # api_key
    THEN [status |-> 401, index |-> idx]
    ELSE IF ("url" \notin DOMAIN request) \/ request.url = <<>>
    THEN [status |-> 400, index |-> idx]
    ELSE LET doc == [url       |-> request.url,
                     content   |-> Get(request, "content", 0),
                     file_type |-> Get(request, "file_type", "html")]
             res == es_index(idx, doc, es_up)
         IN  IF res.ok THEN [status |-> 201, index |-> res.index]
                       ELSE [status |-> 500, index |-> idx]

(* ------------------- crawl_and_index (crawler.py) --------------------- *)
\* What the outside world answers during one call of crawl_and_index:
\*   pdf     length of the text extract_pdf_text gets out of the PDF
\*           (0: the download or the parse failed, or the PDF has no text)
\*   get     "ok" | "error"  session.get + raise_for_status of the HTML path
\*   body    length of the cleaned body text
\*   anchors the absolute URLs of the page's <a href> elements
\*   gateway "ok" | "es_error" | "net_error"  the POST to INDEX_ENDPOINT:
\*           delivered, delivered with the engine down, or RequestException
NoEnv == [pdf |-> 0, get |-> "error", body |-> 0, anchors |-> {}, gateway |-> "ok"]

Gateways == {"ok", "es_error", "net_error"}

\* the URLs that pages link to
HREFS == {UA, UAp, UApF, UEvil, UB}

AnchorSets == { A \in SUBSET HREFS : Cardinality(A) <= MaxLinks }

\* The answers tried for one call.  A field that the call cannot read keeps
\* its NoEnv value; a page whose POST fails carries one same-domain link.
Envs(url) ==
    { NoEnv }
    \cup { [pdf |-> 0, get |-> "ok", body |-> CONTENT_CAP + 1, anchors |-> A,
            gateway |-> "ok"] : A \in AnchorSets }
    \cup { [pdf |-> 0, get |-> "ok", body |-> CONTENT_CAP + 1, anchors |-> {UAp},
            gateway |-> g] : g \in Gateways \ {"ok"} }
    \cup (IF endswith(url, ".pdf")
          THEN { [NoEnv EXCEPT !.pdf = p, !.gateway = g] :
                   p \in TextLens \ {0}, g \in Gateways }
          ELSE {})

\* extract_pdf_text(pdf_url, session)
extract_pdf_text(pdf_support, env) ==
    IF ~pdf_support THEN 0 ELSE env.pdf

\* text[:50000]
Truncate(n) == IF n > CONTENT_CAP THEN CONTENT_CAP ELSE n

\* session.post(INDEX_ENDPOINT, json=doc, headers=headers)
\*   headers = {"x-api-key": API_KEY} if API_KEY else {}
post_doc(doc, client_key, api_key, env, idx) ==
    IF env.gateway = "net_error"
    THEN [raised |-> TRUE, status |-> 0, index |-> idx]
    ELSE LET hdr == IF client_key = None \/ client_key = "" THEN None ELSE client_key
             r   == index_page(hdr, doc, api_key, env.gateway = "ok", idx)
         IN  [raised |-> FALSE, status |-> r.status, index |-> r.index]

\* `if resp.status_code in (200, 201)` with no exception from session.post
index_ok_any_status(r) == ~r.raised

index_ok(r) == ~r.raised /\ r.status \in {200, 201}

\* The try block of crawl_and_index.  exc: an exception left the block
\* (session.get, raise_for_status or the parser raised); the exceptions of
\* session.post are handled inside the block.
try_block(url, env, pdf_support, client_key, api_key, idx) ==
    LET is_pdf   == endswith(url, ".pdf")
        pdf_text == extract_pdf_text(pdf_support, env)
        fail(i, posted, stage) ==
            [exc |-> FALSE, success |-> FALSE, links |-> {}, index |-> i,
             posted |-> posted, stage |-> stage]
    IN  IF is_pdf /\ pdf_support /\ pdf_text > 0
        THEN LET doc == [url |-> url, content |-> Truncate(pdf_text),
                         file_type |-> "pdf"]
                 r   == post_doc(doc, client_key, api_key, env, idx)
             IN  IF index_ok(r)
                 THEN [exc |-> FALSE, success |-> TRUE, links |-> {},
                       index |-> r.index, posted |-> TRUE, stage |-> "pdf_indexed"]
                 ELSE fail(r.index, TRUE, "index_failed")
        ELSE IF env.get # "ok"
        THEN [fail(idx, FALSE, "get_failed") EXCEPT !.exc = TRUE]
        ELSE LET doc == [url |-> url, content |-> Truncate(env.body),
                         file_type |-> "html"]
                 r   == post_doc(doc, client_key, api_key, env, idx)
             IN  IF index_ok(r)
                 THEN [exc |-> FALSE, success |-> TRUE,
                       links |-> extract_links(url, env.anchors),
                       index |-> r.index, posted |-> TRUE, stage |-> "indexed"]
                 ELSE fail(r.index, TRUE, "index_failed")

\* the try block with no except clause after it
crawl_and_index_uncaught(url, env, pdf_support, client_key, api_key, idx) ==
    LET b == try_block(url, env, pdf_support, client_key, api_key, idx)
    IN  [success |-> b.success, links |-> b.links, index |-> b.index,
         posted |-> b.posted, stage |-> b.stage, raised |-> b.exc]

\* crawl_and_index(url, session) -> (success, links); also the index after
\* the call, whether a document was POSTed, where the call ended, and
\* whether an exception left the call (the except clauses catch them all).
crawl_and_index(url, env, pdf_support, client_key, api_key, idx) ==
    LET b == try_block(url, env, pdf_support, client_key, api_key, idx)
    IN  [success |-> IF b.exc THEN FALSE ELSE b.success,
         links   |-> IF b.exc THEN {} ELSE b.links,
         index   |-> b.index, posted |-> b.posted, stage |-> b.stage,
         raised  |-> FALSE]

(* ==================== the query service: src/Backend/app.py ============ *)

\* A text is the sequence of its characters, so that lower(), strip(),
\* `in`, re.findall and len() are computed on it.
UPPER == <<"A", "B", "C", "D", "E", "F", "G", "H", "I", "J", "K", "L", "M", "N", "O", "P", "Q", "R", "S", "T", "U", "V", "W", "X", "Y", "Z">>

LOWER == <<"a", "b", "c", "d", "e", "f", "g", "h", "i", "j", "k", "l", "m", "n", "o", "p", "q", "r", "s", "t", "u", "v", "w", "x", "y", "z">>

DIGITS == <<"0", "1", "2", "3", "4", "5", "6", "7", "8", "9">>

Range(s) == { s[i] : i \in DOMAIN s }

\* str.lower() on one character
lower_char(c) ==
    IF \E i \in DOMAIN UPPER : UPPER[i] = c
    THEN LOWER[CHOOSE i \in DOMAIN UPPER : UPPER[i] = c]
    ELSE c

\* str.lower()
lower(s) == IF s = <<>> THEN <<>> ELSE [i \in 1..Len(s) |-> lower_char(s[i])]

\* str.strip() for the blank
RECURSIVE strip(_)
strip(s) ==
    IF s = <<>> THEN s
    ELSE IF Head(s) = " " THEN strip(Tail(s))
    ELSE IF s[Len(s)] = " " THEN strip(SubSeq(s, 1, Len(s) - 1))
    ELSE s

\* sub in s
contains(s, sub) ==
    \E i \in 0..(Len(s) - Len(sub)) : SubSeq(s, i + 1, i + Len(sub)) = sub

\* \w of the regular expressions
IsWordChar(c) == c \in Range(UPPER) \cup Range(LOWER) \cup Range(DIGITS) \cup {"_"}

\* re.findall(r"\w+", s): the maximal runs of word characters, in order
RECURSIVE findall_words(_, _, _)
findall_words(s, cur, acc) ==
    IF s = <<>> THEN (IF cur = <<>> THEN acc ELSE Append(acc, cur))
    ELSE IF IsWordChar(Head(s)) THEN findall_words(Tail(s), Append(cur, Head(s)), acc)
    ELSE findall_words(Tail(s), <<>>, IF cur = <<>> THEN acc ELSE Append(acc, cur))

\* " ".join(tokens)
RECURSIVE join(_)
join(tokens) ==
    IF tokens = <<>> THEN <<>>
    ELSE IF Len(tokens) = 1 THEN tokens[1]
    ELSE tokens[1] \o <<" ">> \o join(Tail(tokens))

\* str(n) of an int: its decimal digits
RECURSIVE str_nat(_)
str_nat(n) ==
    IF n < 10 THEN <<DIGITS[n + 1]>>
    ELSE str_nat(n \div 10) \o <<DIGITS[(n % 10) + 1]>>

str_int(n) == IF n < 0 THEN <<"-">> \o str_nat(0 - n) ELSE str_nat(n)

\* int(digits) of a run of decimal digits
RECURSIVE int_of(_, _)
int_of(ds, acc) ==
    IF ds = <<>> THEN acc
    ELSE int_of(Tail(ds),
                10 * acc + ((CHOOSE i \in DOMAIN DIGITS : DIGITS[i] = Head(ds)) - 1))

\* Python's None where a text is expected: no text
NoneT == <<None>>

STOP_WORDS == { <<"a">>,
                <<"t", "h", "e">>,
                <<"i", "s">>,
                <<"i", "n">>,
                <<"t", "o">>,
                <<"o", "f">>,
                <<"a", "n", "d">>,
                <<"f", "o", "r">>,
                <<"o", "n">>,
                <<"a", "t">>,
                <<"b", "y">>,
                <<"a", "n">>,
                <<"b", "e">>,
                <<"t", "h", "i", "s">>,
                <<"t", "h", "a", "t">> }

SelectSeqNotIn(tokens, S) == SelectSeq(tokens, LAMBDA t : t \notin S)

clean_query_keep_stop_words(query) ==
    IF query = <<>> THEN NoneT
    ELSE LET q       == lower(query)
             tokens  == findall_words(q, <<>>, <<>>)
             cleaned == strip(join(tokens))
         IN  IF Len(cleaned) < 3 THEN NoneT ELSE cleaned

\* clean_query: lower-case, tokenize, drop the stop words, join; None for an
\* empty query and for a cleaned text shorter than 3 characters
clean_query(query) ==
    IF query = <<>> THEN NoneT
    ELSE LET q       == lower(query)
             tokens  == SelectSeqNotIn(findall_words(q, <<>>, <<>>), STOP_WORDS)
             cleaned == strip(join(tokens))
         IN  IF Len(cleaned) < 3 THEN NoneT ELSE cleaned

(* ---- eval(q, {"__builtins__": {}}, {}): Python's expression evaluation,
   for the texts made of decimal digits, letters, blanks and the symbols
   + * ** < << ( ).  With no builtins and no names bound, the values such
   an expression can have are ints, bools and the empty tuple.          ---- *)

EOFTok == [k |-> "eof", n |-> 0, s |-> <<>>, o |-> ""]

LexError == <<[k |-> "error", n |-> 0, s |-> <<>>, o |-> ""]>>

\* the longest prefix of s whose characters are all in S
RECURSIVE run(_, _)
run(s, S) ==
    IF s = <<>> \/ Head(s) \notin S THEN <<>> ELSE <<Head(s)>> \o run(Tail(s), S)

\* the tokenizer: numbers, names, operators; blanks separate tokens
RECURSIVE tokenize(_, _)
tokenize(s, acc) ==
    IF s = <<>> THEN acc
    ELSE LET c == Head(s) IN
      IF c = " " THEN tokenize(Tail(s), acc)
      ELSE IF c \in Range(DIGITS) THEN
        LET ds   == run(s, Range(DIGITS))
            rest == SubSeq(s, Len(ds) + 1, Len(s))
        IN  IF rest # <<>> /\ IsWordChar(Head(rest))
            THEN LexError                  \* "2hack": invalid decimal literal
            ELSE IF Len(ds) > 1 /\ Head(ds) = "0" /\ Range(ds) # {"0"}
            THEN LexError                  \* leading zeros
            ELSE tokenize(rest, Append(acc, [k |-> "num", n |-> int_of(ds, 0),
                                             s |-> <<>>, o |-> ""]))
      ELSE IF IsWordChar(c) THEN
        LET w == run(s, Range(UPPER) \cup Range(LOWER) \cup Range(DIGITS) \cup {"_"})
        IN  tokenize(SubSeq(s, Len(w) + 1, Len(s)),
                     Append(acc, [k |-> "name", n |-> 0, s |-> w, o |-> ""]))
      ELSE IF c \in {"*", "<"} /\ Len(s) > 1 /\ s[2] = c THEN
        tokenize(SubSeq(s, 3, Len(s)),
                 Append(acc, [k |-> "op", n |-> 0, s |-> <<>>,
                              o |-> IF c = "*" THEN "**" ELSE "<<"]))
      ELSE IF c \in {"+", "*", "<", "(", ")"} THEN
        tokenize(Tail(s), Append(acc, [k |-> "op", n |-> 0, s |-> <<>>, o |-> c]))
      ELSE LexError

tok(ts, p) == IF p <= Len(ts) THEN ts[p] ELSE EOFTok

IsOp(t, o) == t.k = "op" /\ t.o = o

Fail == [ok |-> FALSE, ast |-> [n |-> "none"], p |-> 0]

Parsed(ast, p) == [ok |-> TRUE, ast |-> ast, p |-> p]

\* the expression grammar, lowest precedence first:
\*   expr:   shift ('<' shift)*            shift: arith ('<<' arith)*
\*   arith:  term ('+' term)*              term:  factor ('*' factor)*
\*   factor: '+' factor | power            power: primary ['**' factor]
\*   primary: atom ('(' [['*'|'**'] expr] ')')*
\*   atom:   NUMBER | NAME | '(' [expr] ')'
\* parse_at(rule, ts, p, left) parses `rule` at token p; the rules that
\* continue a left operand (trailers, term_rest, arith_rest, shift_rest,
\* cmp_rest) get it as `left`.
Operand(rule) ==
    IF rule \in {"term", "term_rest"} THEN "factor"
    ELSE IF rule \in {"arith", "arith_rest"} THEN "term"
    ELSE IF rule \in {"shift", "shift_rest"} THEN "arith"
    ELSE "shift"

OpOf(rule) ==
    IF rule = "term_rest" THEN "*"
    ELSE IF rule = "arith_rest" THEN "+"
    ELSE IF rule = "shift_rest" THEN "<<"
    ELSE "<"

Rest(rule) ==
    IF rule = "term" THEN "term_rest"
    ELSE IF rule = "arith" THEN "arith_rest"
    ELSE IF rule = "shift" THEN "shift_rest"
    ELSE "cmp_rest"

NoLeft == [n |-> "none"]

RECURSIVE parse_at(_, _, _, _)

\* the parse e of an operand, made into the node it is an operand of
Binary(e, op, left) ==
    IF e.ok THEN Parsed([n |-> "bin", op |-> op, a |-> left, b |-> e.ast], e.p)
    ELSE Fail

Unary(e) == IF e.ok THEN Parsed([n |-> "pos", a |-> e.ast], e.p) ELSE Fail

Chained0(e) ==
    IF e.ok THEN Parsed([n |-> "cmp", a |-> e.ast, rest |-> <<>>], e.p) ELSE Fail

Chained(e, left) ==
    IF e.ok THEN Parsed([n |-> "cmp", a |-> left.a,
                         rest |-> Append(left.rest, e.ast)], e.p)
    ELSE Fail

\* the ')' after the parse e of a parenthesized expression or of a call's
\* argument
Closing(e, ts, what, left) ==
    IF e.ok /\ IsOp(tok(ts, e.p), ")")
    THEN Parsed(IF what = "call" THEN [n |-> "call", f |-> left] ELSE e.ast,
                e.p + 1)
    ELSE Fail

\* go on with `rule` after the parse e, which becomes its left operand
Continue(e, rule, ts) ==
    IF e.ok THEN parse_at(rule, ts, e.p, e.ast) ELSE Fail

\* the optional '**' factor after a primary
Power(pr, ts) ==
    IF ~pr.ok THEN Fail
    ELSE IF IsOp(tok(ts, pr.p), "**") THEN parse_at("exponent", ts, pr.p + 1, pr.ast)
    ELSE pr

parse_at(rule, ts, p, left) ==
    LET t == tok(ts, p) IN
    IF rule = "atom" THEN
        IF t.k = "num" THEN Parsed([n |-> "num", v |-> t.n], p + 1)
        ELSE IF t.k = "name" THEN Parsed([n |-> "name", s |-> t.s], p + 1)
        ELSE IF ~IsOp(t, "(") THEN Fail
        ELSE IF IsOp(tok(ts, p + 1), ")") THEN Parsed([n |-> "tuple"], p + 2)
        ELSE Closing(parse_at("expr", ts, p + 1, NoLeft), ts, "group", NoLeft)
    ELSE IF rule = "trailers" THEN
        IF ~IsOp(t, "(") THEN Parsed(left, p)
        ELSE IF IsOp(tok(ts, p + 1), ")")
        THEN parse_at("trailers", ts, p + 2, [n |-> "call", f |-> left])
        ELSE Continue(
               Closing(parse_at("expr", ts,
                                IF IsOp(tok(ts, p + 1), "*") \/ IsOp(tok(ts, p + 1), "**")
                                THEN p + 2 ELSE p + 1, NoLeft),
                       ts, "call", left),
               "trailers", ts)
    ELSE IF rule = "power" THEN
        Power(Continue(parse_at("atom", ts, p, NoLeft), "trailers", ts), ts)
    ELSE IF rule = "exponent" THEN
        Binary(parse_at("factor", ts, p, NoLeft), "**", left)
    ELSE IF rule = "factor" THEN
        IF IsOp(t, "+") THEN Unary(parse_at("factor", ts, p + 1, NoLeft))
        ELSE parse_at("power", ts, p, NoLeft)
    ELSE IF rule \in {"term", "arith", "shift"} THEN
        Continue(parse_at(Operand(rule), ts, p, NoLeft), Rest(rule), ts)
    ELSE IF rule \in {"term_rest", "arith_rest", "shift_rest"} THEN
        IF IsOp(t, OpOf(rule))
        THEN Continue(Binary(parse_at(Operand(rule), ts, p + 1, NoLeft),
                             OpOf(rule), left),
                      rule, ts)
        ELSE Parsed(left, p)
    ELSE IF rule = "cmp_rest" THEN   \* a chain a < b < c keeps its operands
        IF IsOp(t, "<")
        THEN Continue(Chained(parse_at("shift", ts, p + 1, NoLeft), left),
                      "cmp_rest", ts)
        ELSE IF left.rest = <<>> THEN Parsed(left.a, p)
        ELSE Parsed(left, p)
    ELSE \* rule = "expr"
        Continue(Chained0(parse_at("shift", ts, p, NoLeft)), "cmp_rest", ts)

\* compile(q, "<string>", "eval"): the whole text is one expression
parse(s) ==
    LET ts == tokenize(s, <<>>)
        e  == IF ts = LexError THEN Fail ELSE parse_at("expr", ts, 1, NoLeft)
    IN  IF e.ok /\ e.p = Len(ts) + 1 THEN e ELSE Fail

\* values: int, bool (v is 0 or 1) and the empty tuple; Raised stands for
\* any exception
Raised == [t |-> "raised", v |-> 0]

IntV(n) == [t |-> "int", v |-> n]

BoolV(b) == [t |-> "bool", v |-> IF b THEN 1 ELSE 0]

TupleV == [t |-> "tuple", v |-> 0]

IsNum(x) == x.t \in {"int", "bool"}

RECURSIVE pow(_, _)
pow(b, e) == IF e = 0 THEN 1 ELSE b * pow(b, e - 1)

\* a binary operator applied to two values
binop(op, x, y) ==
    IF x = Raised \/ y = Raised THEN Raised
    ELSE IF op = "+" THEN
        IF IsNum(x) /\ IsNum(y) THEN IntV(x.v + y.v)
        ELSE IF x = TupleV /\ y = TupleV THEN TupleV
        ELSE Raised
    ELSE IF op = "*" THEN
        IF IsNum(x) /\ IsNum(y) THEN IntV(x.v * y.v)
        ELSE IF (x = TupleV /\ IsNum(y)) \/ (IsNum(x) /\ y = TupleV) THEN TupleV
        ELSE Raised
    ELSE IF op = "**" THEN
        IF IsNum(x) /\ IsNum(y) THEN IntV(pow(x.v, y.v)) ELSE Raised
    ELSE IF op = "<<" THEN
        IF IsNum(x) /\ IsNum(y) THEN IntV(x.v * pow(2, y.v)) ELSE Raised
    ELSE IF op = "<" THEN
        IF IsNum(x) /\ IsNum(y) THEN BoolV(x.v < y.v)
        ELSE IF x = TupleV /\ y = TupleV THEN BoolV(FALSE)
        ELSE Raised
    ELSE Raised

\* one step of a chain a < b < c, which is (a < b) and (b < c): c is the
\* comparison of left with right; a false c is the result and the operands
\* after it are not evaluated
chain_step(c, right, rest) ==
    IF c = Raised THEN [n |-> "value", v |-> Raised]
    ELSE IF rest = <<>> \/ c.v = 0 THEN [n |-> "value", v |-> c]
    ELSE [n |-> "chain", left |-> right, rest |-> rest]

pos(x) == IF x # Raised /\ IsNum(x) THEN IntV(x.v) ELSE Raised

RECURSIVE eval_ast(_)
eval_ast(a) ==
    IF a.n = "num" THEN IntV(a.v)
    ELSE IF a.n = "name" THEN Raised                 \* NameError: nothing is bound
    ELSE IF a.n = "tuple" THEN TupleV
    ELSE IF a.n = "call" THEN Raised                 \* NameError, or TypeError: not callable
    ELSE IF a.n = "pos" THEN pos(eval_ast(a.a))
    ELSE IF a.n = "bin" THEN binop(a.op, eval_ast(a.a), eval_ast(a.b))
    ELSE IF a.n = "cmp" THEN
        IF a.rest = <<>> THEN eval_ast(a.a)
        ELSE eval_ast([n |-> "chain", left |-> eval_ast(a.a), rest |-> a.rest])
    ELSE IF a.n = "chain" THEN
        IF a.left = Raised THEN Raised
        ELSE eval_ast(chain_step(binop("<", a.left, eval_ast(Head(a.rest))),
                                 eval_ast(Head(a.rest)), Tail(a.rest)))
    ELSE IF a.n = "value" THEN a.v
    ELSE Raised

\* eval(q, {"__builtins__": {}}, {}): the value, or Raised for a
\* SyntaxError and for any error of the evaluation
eval(s) ==
    LET e == parse(s) IN IF e.ok THEN eval_ast(e.ast) ELSE Raised

\* str(result)
str(x) ==
    IF x.t = "bool" THEN (IF x.v = 1 THEN <<"T", "r", "u", "e">> ELSE <<"F", "a", "l", "s", "e">>)
    ELSE IF x.t = "tuple" THEN <<"(", ")">>
    ELSE str_int(x.v)

\* isinstance(result, (int, float)); bool is a subclass of int
is_int_or_float(x) == x.t \in {"int", "bool"}

\* the clock counts seconds from 1970-01-01 00:00:00 local time
two_digits(n) == <<DIGITS[(n \div 10) + 1], DIGITS[(n % 10) + 1]>>

\* datetime.now().strftime("%H:%M:%S")
strftime_HMS(now) ==
    two_digits((now \div 3600) % 24) \o <<":">> \o two_digits((now \div 60) % 60)
        \o <<":">> \o two_digits(now % 60)

\* datetime.now().strftime("%Y-%m-%d"), for the days of January 1970
strftime_Ymd(now) ==
    <<"1", "9", "7", "0", "-", "0", "1", "-">> \o two_digits(1 + (now \div DAY))

\* f"{current_date} {current_time}"; the two clock readings of the code
\* are taken at the same instant
time_answer(now) ==
    [type |-> "time", expression |-> <<>>,
     answer |-> strftime_Ymd(now) \o <<" ">> \o strftime_HMS(now),
     label |-> "Current Time"]

TIME_WORDS == { <<"t", "i", "m", "e">>, <<"w", "h", "a", "t", " ", "t", "i", "m", "e">>, <<"c", "u", "r", "r", "e", "n", "t", " ", "t", "i", "m", "e">>, <<"n", "o", "w">> }

MATH_OPS == { <<"+">>, <<"-">>, <<"*">>, <<"/">>, <<"%">>, <<"*", "*">> }

NoAnswer == [type |-> "none", expression |-> <<>>, answer |-> <<>>, label |-> ""]

\* any(word in q for word in ['time', 'what time', 'current time', 'now'])
has_time_word(q) == \E word \in TIME_WORDS : contains(q, word)

\* any(op in q for op in ['+', '-', '*', '/', '%', '**'])
has_math_op(q) == \E op \in MATH_OPS : contains(q, op)

\* the math branch: eval inside try / except: pass
math_answer(query, q) ==
    LET result == eval(q)
    IN  IF result # Raised /\ is_int_or_float(result)
        THEN [type |-> "math", expression |-> query, answer |-> str(result),
              label |-> "Calculation"]
        ELSE NoAnswer

check_instant_answer_math_first(query, now) ==
    LET q == lower(strip(query)) IN
    IF has_math_op(q) /\ math_answer(query, q) # NoAnswer THEN math_answer(query, q)
    ELSE IF has_time_word(q)
    THEN time_answer(now)
    ELSE NoAnswer

\* check_instant_answer: the time detector, then the math detector, else None;
\* now is what datetime.now() reads
check_instant_answer(query, now) ==
    LET q == lower(strip(query)) IN
    IF has_time_word(q)
    THEN time_answer(now)
    ELSE IF has_math_op(q) THEN math_answer(query, q)
    ELSE NoAnswer

(* ------------------------------- search ------------------------------- *)
\* page_size = 10
PAGE_SIZE == 10

\* content[:160] + "..." and the fragment_size of the highlights
SNIPPET_LEN == 160

\* if len(related_topics) >= 5: break
RELATED_MAX == 5

\* the "size" of the significant_text aggregation
AGG_SIZE == 10

build_filters_safe_inverted(safe_search, file_type) ==
    (IF safe_search THEN <<[term |-> "is_safe", value |-> "false"]>> ELSE <<>>)
    \o (IF file_type # None /\ file_type # ""
        THEN <<[term |-> "file_type", value |-> file_type]>> ELSE <<>>)

\* filters = []; if not safe_search: append {"term": {"is_safe": False}};
\* if file_type: append {"term": {"file_type": file_type}}
build_filters(safe_search, file_type) ==
    (IF ~safe_search THEN <<[term |-> "is_safe", value |-> "false"]>> ELSE <<>>)
    \o (IF file_type # None /\ file_type # ""
        THEN <<[term |-> "file_type", value |-> file_type]>> ELSE <<>>)

\* query_body: the multi_match relevance query
query_body(q) ==
    [multi_match |-> [query |-> q, fields |-> <<"title^3", "content">>,
                      type |-> "best_fields", operator |-> "or",
                      fuzziness |-> "AUTO", prefix_length |-> 1]]

\* search_body: a bool query if there are filters, else the bare query;
\* then highlight, from/size and the related_topics aggregation
build_search_body(q, offset, filters) ==
    [query |-> IF filters # <<>>
               THEN [bool |-> [must |-> query_body(q), filter |-> filters]]
               ELSE query_body(q),
     highlight |-> [fragment_size |-> SNIPPET_LEN, number_of_fragments |-> 1],
     from |-> offset, size |-> PAGE_SIZE,
     aggs |-> [related_topics |-> [field |-> "content", size |-> AGG_SIZE]]]

\* es.index(index="search_logs", document=log_doc): it raises when the
\* engine does not take the write or (bound of the model) the log holds
\* MaxLog documents.
es_index_log(logs, doc, log_up) ==
    IF log_up /\ Len(logs) < MaxLog
    THEN [ok |-> TRUE,  logs |-> Append(logs, doc)]
    ELSE [ok |-> FALSE, logs |-> logs]

\* the body of the inner try: clean the query and, if something is left,
\* write the log document
log_query(logs, q, now, log_up) ==
    LET cleaned == clean_query(q) IN
    IF cleaned = NoneT \/ cleaned = <<>>
    THEN [logs |-> logs, outcome |-> "skipped"]
    ELSE LET w == es_index_log(logs, [query |-> cleaned, raw_query |-> q,
                                      timestamp |-> now], log_up)
         IN  [logs |-> w.logs, outcome |-> IF w.ok THEN "written" ELSE "failed"]

log_try_uncaught(logs, q, now, log_up) ==
    LET l == log_query(logs, q, now, log_up)
    IN  [logs |-> l.logs, outcome |-> l.outcome, exc |-> l.outcome = "failed"]

\* try: ... except Exception as log_error: print(...)
log_try(logs, q, now, log_up) ==
    LET l == log_query(logs, q, now, log_up)
    IN  [logs |-> l.logs, outcome |-> l.outcome, exc |-> FALSE]

\* one formatted result: display_url is the netloc, or the url if it has
\* none; snippet (its length) is the highlight, else the content cut to 160
\* characters plus "..."
format_hit(hit) ==
    [title |-> hit.title,
     url |-> hit.url,
     display_url |-> IF netloc(hit.url) # <<>> THEN netloc(hit.url) ELSE hit.url,
     snippet |-> IF hit.highlight > 0 THEN hit.highlight
                 ELSE IF hit.content > SNIPPET_LEN THEN SNIPPET_LEN + 3
                 ELSE hit.content]

format_results(hits) ==
    IF hits = <<>> THEN <<>> ELSE [i \in 1..Len(hits) |-> format_hit(hits[i])]

\* [bucket['key'] for bucket in buckets]
keys_of(buckets) ==
    IF buckets = <<>> THEN <<>> ELSE [i \in 1..Len(buckets) |-> buckets[i].key]

\* for bucket in buckets: skip an empty key, a key whose lower-cased form
\* is excluded or shorter than 3, and a key already taken; stop at 5
RECURSIVE related_loop(_, _, _)
related_loop(buckets, exclusions, acc) ==
    IF buckets = <<>> THEN acc
    ELSE LET term == Head(buckets).key
             t    == lower(term)
         IN  IF term = <<>> THEN related_loop(Tail(buckets), exclusions, acc)
             ELSE IF t \in exclusions \/ Len(t) < 3
             THEN related_loop(Tail(buckets), exclusions, acc)
             ELSE LET acc1 == IF term \notin Range(acc) THEN Append(acc, term)
                              ELSE acc
                  IN  IF Len(acc1) >= RELATED_MAX THEN acc1
                      ELSE related_loop(Tail(buckets), exclusions, acc1)

related_topics_no_exclusions(q, buckets) == related_loop(buckets, {}, <<>>)

\* related_topics: the aggregation's keys without the stop words and the
\* tokens of the query
related_topics(q, buckets) ==
    LET query_tokens == Range(findall_words(lower(q), <<>>, <<>>))
        exclusions   == { lower(t) : t \in STOP_WORDS } \cup query_tokens
    IN  related_loop(buckets, exclusions, <<>>)

NoData == [query |-> <<>>, total |-> 0, offset |-> 0, results |-> <<>>,
           related_topics |-> <<>>, instant_answer |-> NoAnswer]

NoBody == [query |-> [none |-> TRUE]]

\* what es.search gives: an exception, or hits and aggregation buckets
EsError == [ok |-> FALSE, hits |-> <<>>, buckets |-> <<>>]

\* the outer try block of search, up to the exception that ends it (if any)
search_try(q, offset, safe_search, file_type, now, log_up, es, logs) ==
    LET instant_answer == check_instant_answer(q, now)
        filters        == build_filters(safe_search, file_type)
        search_body    == build_search_body(q, offset, filters)
        l              == log_try(logs, q, now, log_up)
        results        == format_results(es.hits)
    IN  IF l.exc
        THEN [exc |-> TRUE, data |-> NoData, logs |-> l.logs,
              body |-> NoBody, log |-> l.outcome]
        ELSE IF ~es.ok
        THEN [exc |-> TRUE, data |-> NoData, logs |-> l.logs,
              body |-> search_body, log |-> l.outcome]
        ELSE [exc |-> FALSE,
              data |-> [query |-> q, total |-> Len(results), offset |-> offset,
                        results |-> results,
                        related_topics |-> related_topics(q, es.buckets),
                        instant_answer |-> instant_answer],
              logs |-> l.logs, body |-> search_body, log |-> l.outcome]

search_empty_on_error(q, offset, safe_search, file_type, now, log_up, es, logs) ==
    LET r == search_try(q, offset, safe_search, file_type, now, log_up, es, logs)
    IN  [status |-> 200,
         data |-> IF r.exc THEN [NoData EXCEPT !.query = q] ELSE r.data,
         logs |-> r.logs, body |-> r.body, log |-> r.log]

\* search: the response (status and data), the request body sent to the
\* engine, the log index after the call and what became of the log write;
\* except Exception -> HTTPException(500)
search(q, offset, safe_search, file_type, now, log_up, es, logs) ==
    LET r == search_try(q, offset, safe_search, file_type, now, log_up, es, logs)
    IN  [status |-> IF r.exc THEN 500 ELSE 200,
         data |-> IF r.exc THEN NoData ELSE r.data,
         logs |-> r.logs, body |-> r.body, log |-> r.log]

(* ------------------------------ suggest ------------------------------- *)
\* for h in hits: a title that is not empty and not yet taken
RECURSIVE suggestions_of(_, _)
suggestions_of(hits, acc) ==
    IF hits = <<>> THEN acc
    ELSE LET title == Head(hits).title
         IN  suggestions_of(Tail(hits),
                            IF title # "" /\ title \notin Range(acc)
                            THEN Append(acc, title) ELSE acc)

\* suggest: except Exception -> HTTPException(500)
suggest(q, es) ==
    IF ~es.ok THEN [status |-> 500, suggestions |-> <<>>]
    ELSE [status |-> 200, suggestions |-> suggestions_of(es.hits, <<>>)]

(* ------------------------------ trending ------------------------------ *)
\* the "size" of the terms aggregation
TRENDING_SIZE == 5

default_trending == << <<"P", "y", "t", "h", "o", "n">>,
                       <<"I", "n", "t", "e", "l", "l", " ", "S", "e", "a", "r", "c", "h">>,
                       <<"W", "e", "b", " ", "C", "r", "a", "w", "l", "i", "n", "g">>,
                       <<"E", "l", "a", "s", "t", "i", "c", "s", "e", "a", "r", "c", "h">>,
                       <<"A", "I">> >>

\* the queries of the log documents with timestamp >= cutoff, each once, in
\* the order of their first document
RECURSIVE distinct_queries(_, _, _)
distinct_queries(logs, cutoff, acc) ==
    IF logs = <<>> THEN acc
    ELSE distinct_queries(Tail(logs), cutoff,
                          IF Head(logs).timestamp >= cutoff
                             /\ Head(logs).query \notin Range(acc)
                          THEN Append(acc, Head(logs).query) ELSE acc)

Reverse(s) == IF s = <<>> THEN <<>> ELSE [i \in 1..Len(s) |-> s[Len(s) + 1 - i]]

\* the engine's answer to the range query with the terms aggregation: at
\* most `size` buckets, one per query of the time range; the engine orders
\* them (the model lets it take either end of the log first)
es_terms_agg(logs, cutoff, size, newest_first) ==
    LET found == distinct_queries(logs, cutoff, <<>>)
        ord   == IF newest_first THEN Reverse(found) ELSE found
        top   == SubSeq(ord, 1, IF Len(ord) < size THEN Len(ord) ELSE size)
    IN  IF top = <<>> THEN <<>> ELSE [i \in 1..Len(top) |-> [key |-> top[i]]]

trending_error_on_failure(now, es_up, newest_first, logs) ==
    IF ~es_up THEN [status |-> 500, trending |-> <<>>, buckets |-> <<>>]
    ELSE LET buckets == es_terms_agg(logs, now - DAY, TRENDING_SIZE, newest_first)
         IN  [status |-> 200,
              trending |-> keys_of(buckets),
              buckets |-> buckets]

\* trending: the keys of the engine's buckets; default_trending when there
\* are none and when anything raises
trending(now, es_up, newest_first, logs) ==
    IF ~es_up THEN [status |-> 200, trending |-> default_trending, buckets |-> <<>>]
    ELSE LET buckets == es_terms_agg(logs, now - DAY, TRENDING_SIZE, newest_first)
         IN  [status |-> 200,
              trending |-> IF buckets # <<>> THEN keys_of(buckets)
                           ELSE default_trending,
              buckets |-> buckets]

(* ------------------- recursive_crawl (crawler.py) --------------------- *)
VARIABLES
    queue,          \* deque of [url, depth]
    visited_urls,   \* set of URLs
    successful,     \* counter
    failed,         \* counter
    pc,             \* "loop": in the while loop; "done": past it;
                    \* "crashed": an exception ended recursive_crawl
    index,          \* the documents of ES_INDEX, in the order they were stored
    PDF_SUPPORT,    \* crawler.py:13-17, fixed at import
    API_KEY,        \* the crawler's os.getenv("API_KEY")
    server_key,     \* the server's os.getenv("API_KEY")
    calls,          \* history: how often crawl_and_index was called per URL
    last,           \* history: the operation that made the last step
    search_logs,    \* the documents of the search_logs index, in order
    qs              \* history: the last exchange of the query service

vars == <<queue, visited_urls, successful, failed, pc, index, PDF_SUPPORT,
          API_KEY, server_key, calls, last, search_logs, qs>>

\* what the crawler and index_page never touch
query_side == <<search_logs, qs>>

config == <<PDF_SUPPORT, API_KEY, server_key>>

Keys == {None, "k1"}

\* the URLs that seed lists are made of
SEEDS == {UApF, UPdf, UB}

SeedLists == UNION { [1..n -> SEEDS] : n \in 1..MaxSeeds }

NoLast == [op |-> "none", url |-> <<>>, depth |-> 0, success |-> FALSE,
           stage |-> "none", posted |-> FALSE, enq |-> <<>>, env |-> NoEnv,
           hdr |-> None, req |-> <<>>, status |-> 0]

NoQs == [op |-> "none", q |-> <<>>, now |-> 0, answer |-> NoAnswer,
         offset |-> 0, safe_search |-> TRUE, file_type |-> None,
         log_up |-> TRUE, es |-> EsError, es_up |-> TRUE, status |-> 0,
         data |-> NoData, body |-> NoBody, log |-> "none",
         logs_before |-> <<>>, buckets |-> <<>>, topics |-> <<>>,
         trending |-> <<>>, suggestions |-> <<>>]

\* the orders in which `for link in links` can run through the set links
Orders(S) == { o \in [1..Cardinality(S) -> S] :
                 \A i, j \in DOMAIN o : i # j => o[i] # o[j] }

LoopCondOneLess(q, visited) ==
    q # <<>> /\ Cardinality(visited) < MAX_PAGES - 1

LoopCondLe(q, visited) == q # <<>> /\ Cardinality(visited) <= MAX_PAGES

\* while queue and len(visited_urls) < MAX_PAGES
LoopCond(q, visited) == q # <<>> /\ Cardinality(visited) < MAX_PAGES

RECURSIVE enqueue_front(_, _, _, _)
enqueue_front(q, order, depth, visited) ==
    IF order = <<>> THEN q
    ELSE LET link == Head(order)
             q1   == IF link \notin visited /\ Cardinality(visited) < MAX_PAGES
                     THEN <<[url |-> link, depth |-> depth + 1]>> \o q
                     ELSE q
         IN  enqueue_front(q1, Tail(order), depth, visited)

\* for link in links: if link not in visited_urls and
\*     len(visited_urls) < MAX_PAGES: queue.append((link, depth + 1))
RECURSIVE enqueue(_, _, _, _)
enqueue(q, order, depth, visited) ==
    IF order = <<>> THEN q
    ELSE LET link == Head(order)
             q1   == IF link \notin visited /\ Cardinality(visited) < MAX_PAGES
                     THEN Append(q, [url |-> link, depth |-> depth + 1])
                     ELSE q
         IN  enqueue(q1, Tail(order), depth, visited)

never_visited(url, visited) == FALSE

\* if url in visited_urls
already_visited(url, visited) == url \in visited

beyond_max_depth_off_by_one(depth) == depth > MAX_DEPTH + 1

\* if depth > MAX_DEPTH
beyond_max_depth(depth) == depth > MAX_DEPTH

ToEnqueue_any_depth(success, links, depth) ==
    IF success THEN links ELSE {}

\* the links one iteration hands to enqueue: none unless success and
\* depth < MAX_DEPTH
ToEnqueue(success, links, depth) ==
    IF success /\ depth < MAX_DEPTH THEN links ELSE {}

failed_count_every_fetch(success, raised, n) ==
    IF raised THEN n ELSE n + 1

\* if success: ... else: failed += 1
failed_count(success, raised, n) ==
    IF success \/ raised THEN n ELSE n + 1

\* queue.append((url, 0)) for url in SEED_URLS
SeedQueue(seeds) == [i \in DOMAIN seeds |-> [url |-> seeds[i], depth |-> 0]]

Init ==
    /\ \E seeds \in SeedLists : queue = SeedQueue(seeds)
    /\ visited_urls = {}
    /\ successful = 0
    /\ failed = 0
    /\ pc = "loop"
    /\ index = <<>>
    /\ PDF_SUPPORT \in BOOLEAN
    /\ API_KEY \in Keys
    /\ server_key \in Keys
    /\ calls = [u \in URLS |-> 0]
    /\ last = NoLast
    /\ search_logs = <<>>
    /\ qs = NoQs

\* popleft; `if url in visited_urls: continue`
SkipVisited ==
    /\ pc = "loop"
    /\ LoopCond(queue, visited_urls)
    /\ already_visited(Head(queue).url, visited_urls)
    /\ queue' = Tail(queue)
    /\ last' = [NoLast EXCEPT !.op = "skip_visited", !.url = Head(queue).url,
                              !.depth = Head(queue).depth]
    /\ UNCHANGED <<visited_urls, successful, failed, pc, index, config, calls>>
    /\ UNCHANGED query_side

\* popleft; visited_urls.add(url); the depth check; crawl_and_index and the
\* counting and enqueueing that follow it
Process ==
    /\ pc = "loop"
    /\ LoopCond(queue, visited_urls)
    /\ LET url   == Head(queue).url
           depth == Head(queue).depth
           vis   == visited_urls \cup {url}
       IN  /\ ~already_visited(url, visited_urls)
           /\ visited_urls' = vis
           /\ IF beyond_max_depth(depth)
              THEN /\ queue' = Tail(queue)
                   /\ last' = [NoLast EXCEPT !.op = "skip_depth", !.url = url,
                                             !.depth = depth]
                   /\ UNCHANGED <<successful, failed, index, calls, pc>>
              ELSE \E env \in Envs(url) :
                   LET r == crawl_and_index(url, env, PDF_SUPPORT, API_KEY,
                                            server_key, index)
                       ok == r.success /\ ~r.raised
                   IN  /\ index' = r.index
                       /\ calls' = [calls EXCEPT ![url] = @ + 1]
                       /\ pc' = IF r.raised THEN "crashed" ELSE pc
                       /\ successful' = IF ok THEN successful + 1 ELSE successful
                       /\ failed' = failed_count(r.success, r.raised, failed)
                       /\ \E order \in Orders(ToEnqueue(ok, r.links, depth)) :
                            /\ queue' = enqueue(Tail(queue), order, depth, vis)
                            /\ last' = [NoLast EXCEPT
                                          !.op = "crawl", !.url = url,
                                          !.depth = depth, !.success = ok,
                                          !.stage = r.stage, !.posted = r.posted,
                                          !.enq = SubSeq(queue', Len(queue), Len(queue')),
                                          !.env = env]
    /\ UNCHANGED config
    /\ UNCHANGED query_side

\* the while condition is false: the summary is printed
Exit ==
    /\ pc = "loop"
    /\ ~LoopCond(queue, visited_urls)
    /\ pc' = "done"
    /\ last' = [NoLast EXCEPT !.op = "exit"]
    /\ UNCHANGED <<queue, visited_urls, successful, failed, index, config, calls>>
    /\ UNCHANGED query_side

(* ------------- POST /index-page from any other client ----------------- *)
Headers == {None, "k1", "k2"}

Requests ==
    { [content |-> CONTENT_CAP + 1],
      [url |-> <<>>, content |-> CONTENT_CAP + 1],
      [url |-> UB],
      [url |-> UB, content |-> CONTENT_CAP + 1, file_type |-> "pdf"] }

IndexPageRequest ==
    \E hdr \in Headers, req \in Requests, es_up \in BOOLEAN :
        LET r == index_page(hdr, req, server_key, es_up, index)
        IN  /\ index' = r.index
            /\ last' = [NoLast EXCEPT !.op = "index_page", !.hdr = hdr,
                                      !.req = req, !.status = r.status]
            /\ UNCHANGED <<queue, visited_urls, successful, failed, pc, config,
                           calls>>
            /\ UNCHANGED query_side

Next == SkipVisited \/ Process \/ Exit \/ IndexPageRequest

\* the crawler and the server with its other clients
Spec == Init /\ [][Next]_vars

\* one run of the crawler, the server answering it alone
NextCrawl == SkipVisited \/ Process \/ Exit

SpecCrawl == Init /\ [][NextCrawl]_vars

\* recursive_crawl runs its loop in one thread and every request of
\* crawl_and_index has a timeout, so an iteration that can be made is made
SpecCrawlLive == Init /\ [][NextCrawl]_vars /\ WF_vars(NextCrawl)

\* the server answering any clients, before a crawl starts
NextServer == IndexPageRequest

SpecServer == Init /\ [][NextServer]_vars


\* the loop body started on any frontier: tasks of any depth up to
\* MAX_DEPTH + 1 (recursive_crawl itself only ever queues depths 0..MAX_DEPTH)
FrontierTasks == [url : {UApF, UB}, depth : {0, MAX_DEPTH, MAX_DEPTH + 1}]

InitBody ==
    /\ queue \in UNION { [1..n -> FrontierTasks] : n \in 1..MaxSeeds }
    /\ visited_urls = {}
    /\ successful = 0
    /\ failed = 0
    /\ pc = "loop"
    /\ index = <<>>
    /\ PDF_SUPPORT \in BOOLEAN
    /\ API_KEY \in Keys
    /\ server_key \in Keys
    /\ calls = [u \in URLS |-> 0]
    /\ last = NoLast
    /\ search_logs = <<>>
    /\ qs = NoQs

SpecBody == InitBody /\ [][NextCrawl]_vars

(* --------------- check_instant_answer on its own ---------------------- *)
\* the clock readings: 00:00:00 and 13:30:00 of one day, 00:00:00 and
\* 00:00:01 of the next
Times == {0, 48600, DAY, DAY + 1}

\* the crawler is not running and nothing is indexed
CrawlerIdle ==
    /\ queue = <<>>
    /\ visited_urls = {}
    /\ successful = 0
    /\ failed = 0
    /\ pc = "done"
    /\ index = <<>>
    /\ PDF_SUPPORT = FALSE
    /\ API_KEY = None
    /\ server_key = None
    /\ calls = [u \in URLS |-> 0]
    /\ last = NoLast

crawl_side == <<queue, visited_urls, successful, failed, pc, index, config,
                calls, last>>

\* what queries are built of: a number, operators, parentheses, an unbound
\* name, a time word, a blank
PIECES == { <<"2">>, <<"+">>, <<"*">>, <<"<">>, <<"(">>, <<")">>, <<" ">>,
            <<"h", "a", "c", "k">>, <<"n", "o", "w">> }

RECURSIVE Flatten(_)
Flatten(ps) == IF ps = <<>> THEN <<>> ELSE Head(ps) \o Flatten(Tail(ps))

PieceQueries ==
    { Flatten(ps) : ps \in UNION { [1..n -> PIECES] : n \in 0..MaxPieces } }

Q_2plus2 == <<"2", "+", "2">>

Q_hack == <<"2", "+", "2", "*", "h", "a", "c", "k", "(", ")">>

Q_what_time == <<"W", "h", "a", "t", " ", "t", "i", "m", "e", " ", "i", "s", " ", "i", "t">>

Q_time_plus == <<"2", "+", "2", " ", "a", "t", " ", "t", "h", "i", "s", " ", "t", "i", "m", "e">>

Q_the_quick == <<"t", "h", "e", " ", "q", "u", "i", "c", "k">>

Q_python == <<"P", "y", "t", "h", "o", "n", " ", "t", "u", "t", "o", "r", "i", "a", "l">>

Q_cpp == <<"c", "+", "+", " ", "t", "u", "t", "o", "r", "i", "a", "l">>

\* 2<2 is false, so the chain never evaluates now+2
Q_now_chain == <<"2", "<", "2", "<", "n", "o", "w", "+", "2">>

NamedQueries == {Q_2plus2, Q_hack, Q_what_time, Q_time_plus, Q_the_quick,
                 Q_python, Q_cpp, Q_now_chain}

Queries == PieceQueries \cup NamedQueries

InitAnswer ==
    /\ CrawlerIdle
    /\ search_logs = <<>>
    /\ \E query \in Queries : qs = [NoQs EXCEPT !.op = "ask", !.q = query]

\* instant_answer = check_instant_answer(q)
InstantAnswer ==
    /\ qs.op = "ask"
    /\ \E now \in Times :
         qs' = [qs EXCEPT !.op = "answer", !.now = now,
                          !.answer = check_instant_answer(qs.q, now)]
    /\ UNCHANGED <<crawl_side, search_logs>>

NextAnswer == InstantAnswer

SpecAnswer == InitAnswer /\ [][NextAnswer]_vars

(* ------------- the query service: /search, /suggest, /trending -------- *)
Q_to_be == <<"t", "o", " ", "b", "e">>

SearchQueries == {Q_the_quick, Q_to_be, Q_2plus2}

FileTypes == {None, "", "pdf"}

Hit1 == [url |-> UB, title |-> "B", content |-> SNIPPET_LEN + 1, highlight |-> 0]

Hit2 == [url |-> UApF, title |-> "A", content |-> SNIPPET_LEN, highlight |-> 0]

Hit3 == [url |-> UB, title |-> "B", content |-> SNIPPET_LEN + 1, highlight |-> SNIPPET_LEN]

\* ten keys, as the significant_text aggregation with size 10 can give
TopicBuckets ==
    << [key |-> <<"W", "e", "b">>],
       [key |-> <<"C", "r", "a", "w", "l", "e", "r">>],
       [key |-> <<"Q", "u", "i", "c", "k">>],
       [key |-> <<"S", "e", "a", "r", "c", "h">>],
       [key |-> <<"t", "h", "e">>],
       [key |-> <<"E", "n", "g", "i", "n", "e">>],
       [key |-> <<"p", "y">>],
       [key |-> <<"W", "e", "b">>],
       [key |-> <<"I", "n", "d", "e", "x">>],
       [key |-> <<"R", "a", "n", "k", "i", "n", "g">>] >>

EsFound == [ok |-> TRUE, hits |-> <<Hit1, Hit2, Hit3>>, buckets |-> TopicBuckets]

EsResults == { EsError, [ok |-> TRUE, hits |-> <<>>, buckets |-> <<>>], EsFound }

\* the calls of search: every combination of offset, safe_search and
\* file_type for one query and one engine result, and every query with
\* every outcome of the log write and of the engine
SearchCalls ==
    [q : {Q_the_quick}, offset : {0, PAGE_SIZE}, safe_search : BOOLEAN,
     file_type : FileTypes, log_up : {TRUE}, es : {EsFound}]
    \cup
    [q : SearchQueries, offset : {0}, safe_search : {TRUE},
     file_type : {None}, log_up : BOOLEAN, es : EsResults]

\* a log six searches have written, each with another query
BusyLog ==
    << [query |-> <<"a", "l", "p", "h", "a">>, raw_query |-> <<"a", "l", "p", "h", "a">>, timestamp |-> 0],
       [query |-> <<"b", "e", "t", "a">>, raw_query |-> <<"b", "e", "t", "a">>, timestamp |-> 0],
       [query |-> <<"g", "a", "m", "m", "a">>, raw_query |-> <<"g", "a", "m", "m", "a">>, timestamp |-> 0],
       [query |-> <<"d", "e", "l", "t", "a">>, raw_query |-> <<"d", "e", "l", "t", "a">>, timestamp |-> 0],
       [query |-> <<"e", "p", "s", "i", "l", "o", "n">>, raw_query |-> <<"e", "p", "s", "i", "l", "o", "n">>, timestamp |-> 0],
       [query |-> <<"z", "e", "t", "a">>, raw_query |-> <<"z", "e", "t", "a">>, timestamp |-> 0] >>

\* the clock readings of the service: a start, one day later, one day
\* and a second later
ClockReadings == {0, DAY, DAY + 1}

\* the clock does not run backwards: readings not before the log's last
LaterTimes(logs) ==
    { t \in ClockReadings : \A i \in DOMAIN logs : logs[i].timestamp <= t }

InitQuery ==
    /\ CrawlerIdle
    /\ search_logs \in {<<>>, BusyLog}
    /\ qs = NoQs

\* GET /search
Search ==
    \E c \in SearchCalls, now \in LaterTimes(search_logs) :
    \E r \in { search(c.q, c.offset, c.safe_search, c.file_type, now,
                      c.log_up, c.es, search_logs) } :
        /\ search_logs' = r.logs
        /\ qs' = [NoQs EXCEPT !.op = "search", !.q = c.q, !.now = now,
                              !.offset = c.offset,
                              !.safe_search = c.safe_search,
                              !.file_type = c.file_type, !.log_up = c.log_up,
                              !.es = c.es, !.status = r.status,
                              !.data = r.data, !.body = r.body,
                              !.log = r.log, !.logs_before = search_logs]
        /\ UNCHANGED crawl_side

\* GET /suggest
Suggest ==
    \E q \in SearchQueries, es \in EsResults :
    \E r \in { suggest(q, es) } :
        /\ qs' = [NoQs EXCEPT !.op = "suggest", !.q = q, !.es = es,
                              !.status = r.status,
                              !.suggestions = r.suggestions]
        /\ UNCHANGED <<crawl_side, search_logs>>

\* GET /trending
Trending ==
    \E now \in LaterTimes(search_logs), es_up \in BOOLEAN,
       newest_first \in BOOLEAN :
    \E r \in { trending(now, es_up, newest_first, search_logs) } :
        /\ qs' = [NoQs EXCEPT !.op = "trending", !.now = now,
                              !.es_up = es_up, !.status = r.status,
                              !.buckets = r.buckets,
                              !.trending = r.trending]
        /\ UNCHANGED <<crawl_side, search_logs>>

NextQuery == Search \/ Suggest \/ Trending

\* the query service answering its clients
SpecQuery == InitQuery /\ [][NextQuery]_vars

(* ------------------- related_topics on its own ------------------------ *)
TERMS == { <<"P", "y", "t", "h", "o", "n">>, <<"p", "y", "t", "h", "o", "n">>, <<"p", "y">>, <<"T", "h", "e">>, <<"Q", "u", "i", "c", "k">>, <<"W", "e", "b">>, <<>> }

BucketLists ==
    { TopicBuckets } \cup
    UNION { [1..n -> [key : TERMS]] : n \in 0..MaxBuckets }

TopicQueries == {Q_the_quick, Q_python}

InitTopics ==
    /\ CrawlerIdle
    /\ search_logs = <<>>
    /\ \E q \in TopicQueries, buckets \in BucketLists :
         qs = [NoQs EXCEPT !.op = "buckets", !.q = q, !.buckets = buckets]

\* the related-topics step of search
RelatedTopics ==
    /\ qs.op = "buckets"
    /\ qs' = [qs EXCEPT !.op = "topics",
                        !.topics = related_topics(qs.q, qs.buckets)]
    /\ UNCHANGED <<crawl_side, search_logs>>

NextTopics == RelatedTopics

SpecTopics == InitTopics /\ [][NextTopics]_vars

(* ============================ properties ============================== *)
RECURSIVE Sum(_, _)
Sum(f, S) == IF S = {} THEN 0
             ELSE LET x == CHOOSE y \in S : TRUE IN f[x] + Sum(f, S \ {x})

\* number of calls of crawl_and_index so far
Fetches == Sum(calls, URLS)

\* C1: every link an iteration appends to the queue has the scheme and host
\* of the page it was found on.
C1_OnlySameHostEnqueued ==
    last.op = "crawl" =>
        \A i \in DOMAIN last.enq :
            get_domain(last.enq[i].url) = get_domain(last.url)

\* C2: the number of visited URLs never exceeds MAX_PAGES, and neither does
\* the number of fetches.
C2_VisitedWithinBudget ==
    /\ Cardinality(visited_urls) <= MAX_PAGES
    /\ Fetches <= MAX_PAGES

\* the budget is used up by fetches while tasks are still queued
C2_Witness ==
    /\ Cardinality(visited_urls) = MAX_PAGES
    /\ Fetches = MAX_PAGES
    /\ queue # <<>>

\* C3: a step of the loop whose dequeued URL is already visited only removes
\* the task: visited set, counters, index and fetch counts are unchanged; and
\* no URL is fetched twice.
C3_RedequeueIsNoOp ==
    /\ [][ ( /\ pc = "loop"
             /\ queue # <<>> /\ Cardinality(visited_urls) < MAX_PAGES
             /\ Head(queue).url \in visited_urls )
           => ( /\ queue' = Tail(queue)
                /\ UNCHANGED <<visited_urls, successful, failed, index, calls>> )
       ]_vars
    /\ [](\A u \in URLS : calls[u] <= 1)

\* a visited, fetched URL has been dequeued again and skipped
C3_Witness ==
    /\ last.op = "skip_visited"
    /\ last.url \in visited_urls
    /\ calls[last.url] = 1

\* C4: a crawl_and_index call that POSTs the page's document without the
\* index storing it (status other than 200/201, or the POST raised) counts
\* the task as failed and appends nothing to the queue.
C4_IndexFailureNoChildren ==
    [][ (calls' # calls /\ last'.posted /\ index' = index)
        => ( /\ failed' = failed + 1
             /\ successful' = successful
             /\ queue' = Tail(queue) )
      ]_vars

\* a page with a same-domain link, fetched below MAX_DEPTH with budget left,
\* whose POST failed
C4_Witness ==
    /\ last.op = "crawl"
    /\ last.posted /\ ~last.success
    /\ last.env.gateway # "ok"
    /\ last.depth < MAX_DEPTH
    /\ Cardinality(visited_urls) < MAX_PAGES
    /\ extract_links(last.url, last.env.anchors) \ visited_urls # {}

\* C5: a failed crawl_and_index call leaves the loop running: the URL is
\* visited and fetched exactly once, failed grows by one, the task is gone
\* from the queue, and when tasks and budget remain the next iteration can
\* run.
C5_FailureDoesNotStopTraversal ==
    /\ [][ (calls' # calls /\ ~last'.success)
           => ( /\ pc' = "loop"
                /\ last'.url \in visited_urls'
                /\ calls'[last'.url] = 1
                /\ failed' = failed + 1
                /\ successful' = successful
                /\ queue' = Tail(queue) )
         ]_vars
    /\ []( ( /\ last.op = "crawl" /\ ~last.success
             /\ queue # <<>> /\ Cardinality(visited_urls) < MAX_PAGES )
           => ENABLED (SkipVisited \/ Process) )

\* a page was indexed after an earlier task had failed
C5_Witness ==
    /\ last.op = "crawl"
    /\ last.success
    /\ failed >= 1

\* C6: an unvisited task dequeued with depth > MAX_DEPTH is marked visited
\* without a call of crawl_and_index and without a document; a URL that is
\* visited and was not fetched is never fetched later.
C6_TooDeepVisitedNotFetched ==
    /\ [][ ( /\ pc = "loop"
             /\ queue # <<>> /\ Cardinality(visited_urls) < MAX_PAGES
             /\ Head(queue).url \notin visited_urls
             /\ Head(queue).depth > MAX_DEPTH )
           => ( /\ visited_urls' = visited_urls \cup {Head(queue).url}
                /\ UNCHANGED <<calls, index, successful, failed>> )
       ]_vars
    /\ [][ \A u \in visited_urls : calls[u] = 0 => calls'[u] = 0 ]_vars

\* a task beyond MAX_DEPTH has been dequeued
C6_Witness ==
    /\ last.op = "skip_depth"
    /\ last.depth > MAX_DEPTH
    /\ last.url \in visited_urls
    /\ calls[last.url] = 0

\* C7: no two visited URLs differ only by their fragment.
C7_FragmentVariantsVisitedOnce ==
    \A u, v \in visited_urls : split0(u, "#") = split0(v, "#") => u = v

\* C8: a call for a .pdf URL with no PDF extractor or no extracted text
\* fails and POSTs no document.
C8_PdfWithoutTextNotIndexed ==
    ( /\ last.op = "crawl"
      /\ endswith(last.url, ".pdf")
      /\ (~PDF_SUPPORT \/ last.env.pdf = 0) )
    => (~last.success /\ ~last.posted)

\* C9: every stored document has content of at most CONTENT_CAP characters.
C9_StoredContentWithinCap ==
    \A i \in DOMAIN index : index[i].content <= CONTENT_CAP

\* the request of the last step is one index_page has to reject
Rejected(hdr, req, api_key) ==
    \/ api_key = None
    \/ hdr = None
    \/ hdr # api_key
    \/ "url" \notin DOMAIN req
    \/ req.url = <<>>

\* C10: index_page changes the index only for a request whose x-api-key
\* equals the configured API_KEY and whose url is non-empty; a request to
\* reject gets an error status and leaves the index unchanged.
C10_IndexPageGuards ==
    [][ last'.op = "index_page"
        => ( /\ index' # index
                => ( /\ server_key # None
                     /\ last'.hdr = server_key
                     /\ "url" \in DOMAIN last'.req
                     /\ last'.req.url # <<>>
                     /\ last'.status = 201 )
             /\ Rejected(last'.hdr, last'.req, server_key)
                => ( /\ last'.status \in {400, 401, 500}
                     /\ index' = index ) )
      ]_vars

\* a request with a wrong key was rejected after one was stored
C10_Witness ==
    /\ last.op = "index_page"
    /\ last.hdr = "k2"
    /\ last.status = 401
    /\ Len(index) = 1


\* C11: url is a unique key of the index: whatever index_page calls have
\* succeeded (the same url posted again included), no two documents of the
\* index carry the same url.
C11_UrlUniqueInIndex ==
    \A i, j \in DOMAIN index : index[i].url = index[j].url => i = j

\* numeric literals, the six operators and grouping parentheses only
PureArithmetic(q) ==
    LET ts == tokenize(q, <<>>)
    IN  /\ ts # LexError
        /\ \A i \in DOMAIN ts :
             \/ ts[i].k = "num"
             \/ ts[i].k = "op" /\ ts[i].o \in {"+", "-", "*", "/", "%", "**", "(", ")"}

\* C12: check_instant_answer never raises (it returns an answer or None);
\* "2+2" yields the math answer "4"; a query with an operator (and no time
\* word) whose evaluation fails or that is not a pure arithmetic expression
\* yields no answer.
C12_InstantAnswerNeverRaises ==
    qs.op = "answer" =>
        LET q == lower(strip(qs.q)) IN
        /\ qs.answer.type \in {"none", "time", "math"}
        /\ qs.q = Q_2plus2 => qs.answer.type = "math" /\ qs.answer.answer = <<"4">>
        /\ ( /\ has_math_op(q)
             /\ ~has_time_word(q)
             /\ (eval(q) = Raised \/ ~PureArithmetic(q)) )
           => qs.answer = NoAnswer

\* C13: a math answer is returned only for a pure arithmetic expression:
\* a query with a name, a call, a comparison or any other construct never
\* yields a math answer.
C13_MathOnlyForPureArithmetic ==
    (qs.op = "answer" /\ qs.answer.type = "math")
        => PureArithmetic(lower(strip(qs.q)))

\* C14: the time detector runs first: a query containing a time keyword
\* gets the time answer even if it also contains an operator; a query with
\* neither a time keyword nor an operator gets none; the answer is one of
\* time, math, none.
C14_TimeBeforeArithmetic ==
    qs.op = "answer" =>
        LET q == lower(strip(qs.q)) IN
        /\ qs.answer.type \in {"none", "time", "math"}
        /\ has_time_word(q) =>
             /\ qs.answer.type = "time"
             /\ qs.answer = time_answer(qs.now)
        /\ ~has_time_word(q) => qs.answer.type # "time"
        /\ (~has_time_word(q) /\ ~has_math_op(q)) => qs.answer = NoAnswer

\* a query with a time keyword and an arithmetic operator, whose evaluation
\* would even give a value, was answered with the time
C14_Witness ==
    /\ qs.op = "answer"
    /\ qs.q = Q_now_chain
    /\ eval(lower(strip(qs.q))) = BoolV(FALSE)
    /\ qs.answer.type = "time"
    /\ qs.answer.answer = <<"1", "9", "7", "0", "-", "0", "1", "-", "0", "1", " ", "1", "3", ":", "3", "0", ":", "0", "0">>

\* the filters of the request body the last search sent to the engine
SentFilters ==
    IF "bool" \in DOMAIN qs.body.query THEN qs.body.query.bool.filter ELSE <<>>

IsSafeFilter == [term |-> "is_safe", value |-> "false"]

C16_TheQuickNotLogged ==
    (qs.op = "search" /\ qs.q = Q_the_quick) =>
        /\ clean_query(qs.q) = NoneT
        /\ qs.log = "skipped"
        /\ search_logs = qs.logs_before

\* C16 as the code has it: for the query "the quick", clean_query drops
\* "the" as a stop-word and returns "quick" (5 characters), so search does
\* not skip the log write; when the write succeeds the log gains one entry
\* whose query is "quick", and when it fails the log is unchanged.
C16_TheQuickLoggedAsQuick ==
    (qs.op = "search" /\ qs.q = Q_the_quick) =>
        /\ clean_query(qs.q) = <<"q", "u", "i", "c", "k">>
        /\ qs.log \in {"written", "failed"}
        /\ qs.log = "written" =>
             search_logs = Append(qs.logs_before,
                                  [query |-> <<"q", "u", "i", "c", "k">>, raw_query |-> qs.q,
                                   timestamp |-> qs.now])
        /\ qs.log = "failed" => search_logs = qs.logs_before
        /\ (qs.log_up /\ Len(qs.logs_before) < MaxLog) => qs.log = "written"

\* a search for "the quick" has put the entry "quick" into an empty log
C16_Witness ==
    /\ qs.op = "search"
    /\ qs.q = Q_the_quick
    /\ qs.log = "written"
    /\ qs.logs_before = <<>>
    /\ Len(search_logs) = 1
    /\ search_logs[1].query = <<"q", "u", "i", "c", "k">>

\* C17: a failure of the query-log write never affects the search
\* response: for the same query, parameters, clock and engine result, the
\* status and the data are the same whether the log write succeeds or fails
\* and whatever the log holds, and a search whose log write failed answers
\* with the engine's result.
C17_LogFailureDoesNotAffectResponse ==
    qs.op = "search" =>
        /\ \A log_up \in BOOLEAN, logs \in {<<>>, qs.logs_before, BusyLog} :
             LET r == search(qs.q, qs.offset, qs.safe_search, qs.file_type,
                             qs.now, log_up, qs.es, logs)
             IN  r.status = qs.status /\ r.data = qs.data
        /\ (qs.log \in {"failed", "skipped"} /\ qs.es.ok) =>
             /\ qs.status = 200
             /\ qs.data.query = qs.q
             /\ qs.data.total = Len(qs.es.hits)

\* a search whose log write failed returned the engine's three hits
C17_Witness ==
    /\ qs.op = "search"
    /\ qs.log = "failed"
    /\ search_logs = qs.logs_before
    /\ qs.status = 200
    /\ qs.data.total = 3

\* a subsequence of the sequence k: the elements of k, some left out, in
\* k's order
RECURSIVE IsSubseq(_, _)
IsSubseq(t, k) ==
    IF t = <<>> THEN TRUE
    ELSE IF k = <<>> THEN FALSE
    ELSE IF Head(t) = Head(k) THEN IsSubseq(Tail(t), Tail(k))
    ELSE IsSubseq(t, Tail(k))

\* C18: for every query and every list of buckets, related_topics holds no
\* term shorter than 3 characters, no stop-word, no term equal
\* case-insensitively to a token of the raw query and no duplicate, has at
\* most 5 terms, and keeps the buckets' order.
C18_RelatedTopicsFiltered ==
    qs.op = "topics" =>
        LET topics == qs.topics
            tokens == Range(findall_words(qs.q, <<>>, <<>>))
        IN  /\ \A i \in DOMAIN topics :
                 /\ Len(topics[i]) >= 3
                 /\ topics[i] \notin STOP_WORDS
                 /\ lower(topics[i]) \notin STOP_WORDS
                 /\ \A tk \in tokens : lower(tk) # lower(topics[i])
            /\ \A i, j \in DOMAIN topics : topics[i] = topics[j] => i = j
            /\ Len(topics) <= 5
            /\ IsSubseq(topics, keys_of(qs.buckets))

\* of ten buckets holding a token of the query ("Quick"), a stop-word, a
\* short key and a repeated key, five are taken and the last two are cut
C18_Witness ==
    /\ qs.op = "topics"
    /\ qs.q = Q_the_quick
    /\ qs.buckets = TopicBuckets
    /\ qs.topics = << <<"W", "e", "b">>, <<"C", "r", "a", "w", "l", "e", "r">>, <<"S", "e", "a", "r", "c", "h">>, <<"E", "n", "g", "i", "n", "e">>, <<"I", "n", "d", "e", "x">> >>

\* C19: an error of the engine's search call surfaces from search as HTTP
\* 500 with no results, partial or fallback; the same holds for suggest.
C19_EngineErrorIs500 ==
    (qs.op \in {"search", "suggest"} /\ ~qs.es.ok) =>
        /\ qs.status = 500
        /\ qs.data = NoData
        /\ qs.suggestions = <<>>

\* the engine failed a search for "2+2" (which has an instant answer) after
\* the log entry was written: the caller got 500
C19_Witness ==
    /\ qs.op = "search"
    /\ qs.q = Q_2plus2
    /\ ~qs.es.ok
    /\ qs.log = "written"
    /\ qs.status = 500

\* the log documents with a timestamp within the 24 hours before now
RecentEntries(logs, now) ==
    { i \in DOMAIN logs : logs[i].timestamp >= now - DAY }

\* C20: trending never returns an error: with an empty log, no entry
\* within the last 24 hours, an unreachable log or a failed aggregation it
\* returns the fixed 5-item fallback list; otherwise it returns at most 5
\* terms in the engine's order.
C20_TrendingNeverFails ==
    qs.op = "trending" =>
        LET recent == RecentEntries(search_logs, qs.now) IN
        /\ qs.status = 200
        /\ Len(default_trending) = 5
        /\ (search_logs = <<>> \/ recent = {} \/ ~qs.es_up) =>
             qs.trending = default_trending
        /\ (recent # {} /\ qs.es_up) =>
             /\ qs.trending = keys_of(qs.buckets)
             /\ qs.trending # <<>>
             /\ Len(qs.trending) <= 5
             /\ \A i \in DOMAIN qs.trending :
                  \E j \in recent : search_logs[j].query = qs.trending[i]

\* the engine failed while the log held entries: the fallback list came back
C20_Witness ==
    /\ qs.op = "trending"
    /\ ~qs.es_up
    /\ search_logs # <<>>
    /\ RecentEntries(search_logs, qs.now) # {}
    /\ qs.status = 200
    /\ qs.trending = default_trending

\* the loop has ended with the queue empty or the visited count at the budget
TerminalCondition ==
    /\ pc = "done"
    /\ (queue = <<>> \/ Cardinality(visited_urls) = MAX_PAGES)

\* C21: for every seed list and every link graph the crawl loop terminates,
\* and at termination the queue is empty or the visited count equals the
\* page budget.
C21_CrawlTerminates ==
    /\ <>(pc = "done")
    /\ [](pc # "loop" => TerminalCondition)

\* the loop ended on the budget with tasks still queued
C21_Witness ==
    /\ pc = "done"
    /\ last.op = "exit"
    /\ queue # <<>>
    /\ Cardinality(visited_urls) = MAX_PAGES

\* the steps that take a task off the queue
Dequeues == {"skip_visited", "skip_depth", "crawl"}

\* the queued depths never decrease from the head to the tail, and none is
\* below the depth of the task dequeued last
FrontierInDepthOrder ==
    /\ \A i, j \in DOMAIN queue : i < j => queue[i].depth <= queue[j].depth
    /\ last.op \in Dequeues =>
          \A i \in DOMAIN queue : last.depth <= queue[i].depth

\* a step that changes the queue takes its head, which is no deeper than any
\* queued task and no shallower than the task dequeued before it
DequeueInOrder ==
    /\ (queue' # queue) =>
          /\ last'.op \in Dequeues
          /\ last'.depth = Head(queue).depth
          /\ \A i \in DOMAIN queue : last'.depth <= queue[i].depth
    /\ (last.op \in Dequeues /\ last'.op \in Dequeues) =>
          (last.depth <= last'.depth)

\* seeds are queued at depth 0 and children one below the page they were on
DepthsAssigned ==
    /\ (last.op = "none") => (\A i \in DOMAIN queue : queue[i].depth = 0)
    /\ (last.op = "crawl") =>
          (\A i \in DOMAIN last.enq : last.enq[i].depth = last.depth + 1)

\* C22: the traversal is breadth-first: seeds enter the queue at depth 0,
\* every enqueued child has depth exactly one more than the page it was found
\* on, and the depths of the dequeued tasks form a non-decreasing sequence (no
\* task of depth d+1 is dequeued before a queued task of depth d).
C22_BreadthFirst ==
    /\ [](DepthsAssigned /\ FrontierInDepthOrder)
    /\ [][DequeueInOrder]_vars

\* a page of depth 1 was fetched and gave a child while another task of
\* depth 1 was still queued
C22_Witness ==
    /\ last.op = "crawl"
    /\ last.depth = 1
    /\ last.enq # <<>>
    /\ \E i \in DOMAIN queue : queue[i].depth = 1

\* C23: every task in the frontier queue has a depth from 0 to MAX_DEPTH, so
\* the branch that skips a task beyond the maximum depth is never taken and
\* every URL marked visited has been handed to crawl_and_index.
C23_QueuedDepthsWithinMax ==
    /\ \A i \in DOMAIN queue : queue[i].depth \in 0..MAX_DEPTH
    /\ last.op # "skip_depth"
    /\ \A u \in visited_urls : calls[u] >= 1

\* a page at the maximum depth was fetched with success and had links, the
\* budget was still open, and none of its links was queued
C23_Witness ==
    /\ last.op = "crawl"
    /\ last.depth = MAX_DEPTH
    /\ last.success
    /\ last.env.anchors # {}
    /\ Cardinality(visited_urls) < MAX_PAGES
    /\ last.enq = <<>>

\* the visited URLs that were skipped for exceeding the depth limit
SkippedForDepth == { u \in visited_urls : calls[u] = 0 }

\* the counters after any number of completed iterations
CountersMatchVisited ==
    /\ successful + failed =
          Cardinality(visited_urls) - Cardinality(SkippedForDepth)
    /\ \A u \in URLS : calls[u] <= 1

\* a fetch adds one to exactly one counter, any other step adds nothing
FetchCountedOnce ==
    IF calls' # calls
    THEN \/ successful' = successful + 1 /\ failed' = failed
         \/ successful' = successful /\ failed' = failed + 1
    ELSE successful' = successful /\ failed' = failed

\* C24: after every completed iteration of the crawl loop, and so in the
\* final summary, successful + failed equals the number of visited URLs minus
\* the number of tasks skipped for exceeding the depth limit, and each fetched
\* URL is counted in exactly one of successful and failed.
C24_CountersAccountForVisited ==
    /\ []CountersMatchVisited
    /\ [][FetchCountedOnce]_vars

\* the summary of a run that skipped a task for its depth, indexed a page
\* and failed on another
C24_Witness ==
    /\ pc = "done"
    /\ SkippedForDepth # {}
    /\ successful >= 1
    /\ failed >= 1

====
